---- MODULE Spec2Model ----
(***************************************************************************)
(* Model of midealocal/devices/e1/__init__.py: the Midea E1 (dishwasher)   *)
(* device adapter.  The state is the attribute snapshot of one device      *)
(* (self._attributes) and the observable outcome of the most recent call   *)
(* of its three entry points build_query, process_message and              *)
(* set_attribute:                                                          *)
(*   call        the entry point called and its arguments                  *)
(*   new_status  the dict that call returned when it was process_message,  *)
(*               empty for the other entry points                          *)
(*   sent        the messages that call handed to build_send, which        *)
(*               belongs to the transport layer (MideaDevice)              *)
(*   raised      the exception that call raised, "" when it returned       *)
(*   repeated    whether that call repeated the call before it             *)
(*                                                                         *)
(* Python values are tagged pairs <<type, payload>> so that a bool, an     *)
(* int, a str and None are never confused (True is not 1 for isinstance,   *)
(* 0 is not None).  A decoded response object is a function from the names *)
(* of the fields it exposes to their values: hasattr(message, n) is        *)
(* n \in DOMAIN message and getattr(message, n) is message[n].             *)
(***************************************************************************)
EXTENDS Integers, Sequences, FiniteSets, TLC

VARIABLES attributes, new_status, sent, call, raised, repeated

vars == <<attributes, new_status, sent, call, raised, repeated>>

(***************************************************************************)
(* Python values                                                           *)
(***************************************************************************)
PyBool(b) == <<"bool", b>>
PyInt(n) == <<"int", n>>
PyStr(s) == <<"str", s>>
PyNone == <<"None", 0>>

\* a bool or an int: what hashes and compares as an integer
isinstance_int(value) == value[1] \in {"bool", "int"}

\* isinstance(value, bool): true of True and False only, not of 0 and 1
isinstance_bool_or_int(value) == value[1] \in {"bool", "int"}
isinstance_bool(value) == value[1] = "bool"

\* the integer a bool or int value hashes and compares as (True == 1)
as_int(value) == IF value[1] = "bool" THEN (IF value[2] THEN 1 ELSE 0) ELSE value[2]

(***************************************************************************)
(* Bounds of the model                                                     *)
(***************************************************************************)
\* largest raw integer a frame of the narrow frame set reports
MaxRaw == 1
\* largest number of fields one frame of the narrow frame set exposes
MaxFrameFields == 2
\* largest status / mode / progress code a frame of the wide frame set reports
MaxStatusCode == 6
MaxModeCode == 26
MaxProgressIndex == 6
\* largest integer a caller passes to set_attribute
MaxIntValue == 1

(***************************************************************************)
(* class DeviceAttributes and the schema defaults                          *)
(***************************************************************************)
DeviceAttributes ==
    {"power", "status", "mode", "additional", "door", "rinse_aid", "salt",
     "child_lock", "uv", "dry", "dry_status", "storage", "storage_status",
     "time_remaining", "progress", "storage_remaining", "temperature",
     "humidity", "waterswitch", "water_lack", "error_code", "softwater",
     "wrong_operation", "bright", "door_auto_open", "wash_region", "version",
     "air", "air_status", "air_set_hour", "air_left_hour", "ion_level",
     "ion_status", "ion_time_remaining"}

\* attributes={...} passed to MideaDevice.__init__
default_attributes ==
    [a \in DeviceAttributes |->
        CASE a \in {"power", "uv", "dry_status", "door", "rinse_aid", "salt",
                    "child_lock", "storage", "storage_status", "waterswitch",
                    "water_lack", "door_auto_open", "air", "air_status"}
                -> PyBool(FALSE)
          [] a \in {"mode", "additional", "softwater", "bright", "wash_region"}
                -> PyInt(0)
          [] OTHER -> PyNone]

(***************************************************************************)
(* Lookup tables built by __init__                                         *)
(***************************************************************************)
_modes ==
    (0 :> "Neutral Gear") @@ (1 :> "Auto Wash") @@ (2 :> "Strong Wash") @@
    (3 :> "Standard Wash") @@ (4 :> "ECO Wash") @@ (5 :> "Glass Wash") @@
    (6 :> "90 Min Wash") @@ (7 :> "Fast Wash") @@ (8 :> "Soak Wash") @@
    (9 :> "1 Hour Wash") @@ (10 :> "Self Clean") @@ (11 :> "Fruit Wash") @@
    (12 :> "Self Define") @@ (13 :> "Germ") @@ (14 :> "Bowl Wash") @@
    (15 :> "Kill Germ") @@ (16 :> "Sea Food Wash") @@ (18 :> "Hot Pot Wash") @@
    (19 :> "Quiet Night Wash") @@ (20 :> "Less Wash") @@
    (22 :> "Oil Net Wash") @@ (25 :> "Cloud Wash")

_status ==
    (0 :> "Power Off") @@ (1 :> "Cancel") @@ (2 :> "Delay") @@
    (3 :> "Running") @@ (4 :> "Error") @@ (5 :> "Soft Gear")

\* a Python list: _progress[i] of the source is _progress[i + 1] here
_progress == <<"Idle", "Pre-wash", "Wash", "Rinse", "Dry", "Complete">>

_additional ==
    (0 :> "None") @@ (1 :> "Extra Drying") @@ (3 :> "Express") @@
    (4 :> "Power Wash")

_wash_region ==
    (0 :> "Both Zones") @@ (1 :> "Top Zone") @@ (2 :> "Bottom Zone")

(***************************************************************************)
(* process_message                                                         *)
(***************************************************************************)
\* dict.get(value): the entry for a key of the table, None for any other value
dict_get_or_key(table, value) ==
    IF isinstance_int(value) /\ as_int(value) \in DOMAIN table
    THEN PyStr(table[as_int(value)])
    ELSE value
dict_get(table, value) ==
    IF isinstance_int(value) /\ as_int(value) \in DOMAIN table
    THEN PyStr(table[as_int(value)])
    ELSE PyNone

\* "if value < len(self._progress): self._progress[value] else None";
\* a negative index counts from the end of the list, as Python's does
progress_label_short(value) ==
    IF as_int(value) < Len(_progress) - 1
    THEN IF as_int(value) >= 0
         THEN PyStr(_progress[as_int(value) + 1])
         ELSE PyStr(_progress[Len(_progress) + as_int(value) + 1])
    ELSE PyNone
progress_label(value) ==
    IF as_int(value) < Len(_progress)
    THEN IF as_int(value) >= 0
         THEN PyStr(_progress[as_int(value) + 1])
         ELSE PyStr(_progress[Len(_progress) + as_int(value) + 1])
    ELSE PyNone

\* the if/elif chain of the loop body: the value stored for attribute status
transform_with_tables(status, value) ==
    IF status = "status" THEN dict_get(_status, value)
    ELSE IF status = "progress" THEN progress_label(value)
    ELSE IF status = "mode" THEN dict_get(_modes, value)
    ELSE IF status = "additional" THEN dict_get(_additional, value)
    ELSE IF status = "wash_region" THEN dict_get(_wash_region, value)
    ELSE value
transform(status, value) ==
    IF status = "status" THEN dict_get(_status, value)
    ELSE IF status = "progress" THEN progress_label(value)
    ELSE IF status = "mode" THEN dict_get(_modes, value)
    ELSE value

\* self._attributes after the loop over the schema
updated_attributes(attrs, message) ==
    [status \in DOMAIN attrs |->
        IF status \in DOMAIN message
        THEN transform(status, message[status])
        ELSE attrs[status]]

\* the dict new_status returned by process_message
new_status_all(before, after, message) ==
    [status \in DOMAIN before |-> after[status]]
new_status_changed(before, after, message) ==
    [status \in {s \in DOMAIN before :
                    s \in DOMAIN message /\ after[s] # before[s]}
        |-> after[status]]
new_status_of(before, after, message) ==
    [status \in {s \in DOMAIN before : s \in DOMAIN message} |-> after[status]]

NoMessage == [n \in {} |-> PyNone]

Call(op, attr, value, msg) ==
    [op |-> op, attr |-> attr, value |-> value, msg |-> msg]

process_message(msg) ==
    /\ attributes' = updated_attributes(attributes, msg)
    /\ new_status' = new_status_of(attributes, attributes', msg)
    /\ call' = Call("process_message", "", PyNone, msg)
    /\ raised' = ""
    /\ sent' = <<>>
    /\ repeated' = (call' = call)

(***************************************************************************)
(* build_query                                                             *)
(***************************************************************************)
build_query ==
    /\ call' = Call("build_query", "", PyNone, NoMessage)
    /\ raised' = ""
    /\ new_status' = NoMessage
    /\ sent' = <<>>
    /\ repeated' = (call' = call)
    /\ UNCHANGED attributes

(***************************************************************************)
(* set_attribute                                                           *)
(***************************************************************************)
Command(kind, field, value) == [kind |-> kind, field |-> field, value |-> value]

\* the messages the if/elif chain builds and hands to build_send
built_messages_else_storage(attr, value) ==
    IF attr = "power" THEN <<Command("MessagePower", "power", value)>>
    ELSE IF attr = "child_lock" THEN <<Command("MessageLock", "lock", value)>>
    ELSE <<Command("MessageStorage", "storage", value)>>
built_messages_swapped(attr, value) ==
    IF attr = "power" THEN <<Command("MessagePower", "power", value)>>
    ELSE IF attr = "child_lock" THEN <<Command("MessageStorage", "storage", value)>>
    ELSE IF attr = "storage" THEN <<Command("MessageLock", "lock", value)>>
    ELSE <<>>
built_messages(attr, value) ==
    IF attr = "power" THEN <<Command("MessagePower", "power", value)>>
    ELSE IF attr = "child_lock" THEN <<Command("MessageLock", "lock", value)>>
    ELSE IF attr = "storage" THEN <<Command("MessageStorage", "storage", value)>>
    ELSE <<>>

set_attribute_optimistic(attr, value) ==
    /\ call' = Call("set_attribute", attr, value, NoMessage)
    /\ repeated' = (call' = call)
    /\ new_status' = NoMessage
    /\ IF ~isinstance_bool(value)
       THEN /\ raised' = "ValueWrongType"
            /\ sent' = <<>>
            /\ UNCHANGED attributes
       ELSE /\ raised' = ""
            /\ sent' = built_messages(attr, value)
            /\ attributes' = [a \in DOMAIN attributes |->
                                IF a = attr THEN value ELSE attributes[a]]
set_attribute(attr, value) ==
    /\ call' = Call("set_attribute", attr, value, NoMessage)
    /\ repeated' = (call' = call)
    /\ new_status' = NoMessage
    /\ IF ~isinstance_bool(value)
       THEN /\ raised' = "ValueWrongType"
            /\ sent' = <<>>
            /\ UNCHANGED attributes
       ELSE /\ raised' = ""
            /\ sent' = built_messages(attr, value)
            /\ UNCHANGED attributes

(***************************************************************************)
(* Inputs                                                                  *)
(***************************************************************************)
\* attribute names callers pass to set_attribute: the writable ones, a
\* schema name that is not writable, and a name outside the schema
WritableAttributes == {"power", "child_lock", "storage"}
SetAttributeNames == WritableAttributes \cup {"mode", "fan_speed"}

SetAttributeValues ==
    {PyBool(TRUE), PyBool(FALSE), PyStr("on")}
        \cup {PyInt(n) : n \in 0..MaxIntValue}

\* fields a response of the narrow frame set exposes; body_type is an
\* accessor of the response object that is no schema attribute
ReportedFields == {"power", "mode", "additional", "wash_region", "body_type"}
FieldValues(name) ==
    IF name = "power" THEN {PyBool(TRUE), PyBool(FALSE)}
    ELSE IF name = "body_type" THEN {PyInt(0)}
    ELSE {PyInt(n) : n \in 0..MaxRaw}

FramesOver(fields) ==
    {m \in [fields -> UNION {FieldValues(n) : n \in fields}] :
        \A n \in fields : m[n] \in FieldValues(n)}
Frames ==
    UNION {FramesOver(fields) :
            fields \in {F \in SUBSET ReportedFields : Cardinality(F) <= MaxFrameFields}}

\* the wide frame set: one lookup-decoded field over its whole code range
DecodeValues(name) ==
    IF name = "status" THEN {PyInt(n) : n \in 0..MaxStatusCode}
    ELSE IF name = "mode" THEN {PyInt(n) : n \in 0..MaxModeCode}
    ELSE {PyInt(n) : n \in 0..MaxProgressIndex}
DecodeFrames ==
    {NoMessage} \cup
    UNION {{[f \in {name} |-> v] : v \in DecodeValues(name)} :
            name \in {"status", "mode", "progress"}}

(***************************************************************************)
(* Specifications                                                          *)
(***************************************************************************)
Init ==
    /\ attributes = default_attributes
    /\ new_status = NoMessage
    /\ sent = <<>>
    /\ call = Call("__init__", "", PyNone, NoMessage)
    /\ raised = ""
    /\ repeated = FALSE

ProcessMessage == \E msg \in Frames : process_message(msg)
SetAttribute == \E attr \in SetAttributeNames, value \in SetAttributeValues :
                    set_attribute(attr, value)

Next == build_query \/ ProcessMessage \/ SetAttribute

Spec == Init /\ [][Next]_vars

DecodeMessage == \E msg \in DecodeFrames : process_message(msg)

NextDecode == DecodeMessage

SpecDecode == Init /\ [][NextDecode]_vars

(***************************************************************************)
(* Properties                                                              *)
(***************************************************************************)
IsSetAttribute(c) == c.op = "set_attribute"
IsProcessMessage(c) == c.op = "process_message"
Reports(c, name) == name \in DOMAIN c.msg

\* C1: set_attribute with a value that is not a bool (the ints 0 and 1
\* included) raises the value-type error before any side effect: nothing is
\* handed to build_send and the snapshot is what it was before the call.
C1_NonBoolRejected ==
    [][(IsSetAttribute(call') /\ call'.value[1] # "bool")
        => /\ raised' = "ValueWrongType"
           /\ sent' = <<>>
           /\ attributes' = attributes]_vars

C1_Witness ==
    /\ IsSetAttribute(call)
    /\ call.attr = "power"
    /\ call.value = PyInt(1)
    /\ raised = "ValueWrongType"
    /\ sent = <<>>

\* C2: set_attribute of power, child_lock or storage with a bool v hands
\* build_send exactly one message, of the kind bound to the attribute
\* (MessagePower, MessageLock, MessageStorage), whose payload field is v.
C2_OneCommandOfBoundKind ==
    (IsSetAttribute(call) /\ call.value[1] = "bool")
        => /\ call.attr = "power" =>
                sent = <<[kind |-> "MessagePower", field |-> "power",
                          value |-> call.value]>>
           /\ call.attr = "child_lock" =>
                sent = <<[kind |-> "MessageLock", field |-> "lock",
                          value |-> call.value]>>
           /\ call.attr = "storage" =>
                sent = <<[kind |-> "MessageStorage", field |-> "storage",
                          value |-> call.value]>>

C2_Witness ==
    /\ IsSetAttribute(call)
    /\ call.attr = "child_lock"
    /\ call.value = PyBool(TRUE)
    /\ Len(sent) = 1
    /\ sent[1].kind = "MessageLock"
    /\ sent[1].value = PyBool(TRUE)
    /\ raised = ""

\* C3: the snapshot changes only at process_message steps: a set_attribute
\* step (sending, ignored or raising) and a build_query step leave every
\* attribute value as it was.
C3_SnapshotChangesOnlyOnProcess ==
    [][call'.op \in {"set_attribute", "build_query"}
        => attributes' = attributes]_vars

C3_Witness ==
    /\ IsSetAttribute(call)
    /\ call.attr = "power"
    /\ call.value = PyBool(TRUE)
    /\ Len(sent) = 1
    /\ attributes["power"] = PyBool(FALSE)
    /\ attributes # default_attributes

\* C4: the delta process_message returns has as its keys exactly the schema
\* attribute names the frame exposes, and every schema attribute the frame
\* does not expose keeps the value it had before the call.
C4_DeltaIsFramePresence ==
    [][IsProcessMessage(call')
        => /\ DOMAIN new_status' = DOMAIN call'.msg \cap DeviceAttributes
           /\ \A a \in DeviceAttributes \ DOMAIN call'.msg :
                attributes'[a] = attributes[a]]_vars

C4_Witness ==
    /\ IsProcessMessage(call)
    /\ DOMAIN call.msg = {"mode", "body_type"}
    /\ DOMAIN new_status = {"mode"}
    /\ attributes["power"] = PyBool(TRUE)
    /\ attributes["additional"] = PyInt(1)

\* C5: process_message called a second time in a row with the identical
\* frame returns the delta the first call returned and leaves the snapshot
\* as the first call left it.
C5_ProcessIdempotent ==
    [][(IsProcessMessage(call) /\ call' = call)
        => /\ new_status' = new_status
           /\ attributes' = attributes]_vars

C5_Witness ==
    /\ IsProcessMessage(call)
    /\ repeated
    /\ DOMAIN new_status = {"power", "mode"}
    /\ attributes["power"] = PyBool(TRUE)

\* C6: for mode and status reported by a frame, process_message stores the
\* label the table maps the code to when the code is a key of the table, and
\* None when it is not (mode 0x11, 0x15, status 0x06).
C6_LookupOrNone ==
    IsProcessMessage(call)
        => /\ Reports(call, "mode") =>
                attributes["mode"] =
                    IF call.msg["mode"][2] \in DOMAIN _modes
                    THEN <<"str", _modes[call.msg["mode"][2]]>>
                    ELSE <<"None", 0>>
           /\ Reports(call, "status") =>
                attributes["status"] =
                    IF call.msg["status"][2] \in DOMAIN _status
                    THEN <<"str", _status[call.msg["status"][2]]>>
                    ELSE <<"None", 0>>

C6_Witness ==
    /\ IsProcessMessage(call)
    /\ Reports(call, "mode")
    /\ call.msg["mode"] = PyInt(21)
    /\ attributes["mode"] = PyNone
    /\ new_status["mode"] = PyNone
    /\ attributes["status"] = PyStr("Running")

\* C7: for a frame reporting progress with index i >= 0, process_message
\* stores the i-th label of [Idle, Pre-wash, Wash, Rinse, Dry, Complete] when
\* i < 6 and None when i >= 6.
C7_ProgressByPosition ==
    (IsProcessMessage(call) /\ Reports(call, "progress")
        /\ call.msg["progress"][2] >= 0)
        => attributes["progress"] =
            IF call.msg["progress"][2] < 6
            THEN <<"str", <<"Idle", "Pre-wash", "Wash", "Rinse", "Dry",
                            "Complete">>[call.msg["progress"][2] + 1]>>
            ELSE <<"None", 0>>

C7_Witness ==
    /\ IsProcessMessage(call)
    /\ Reports(call, "progress")
    /\ call.msg["progress"] = PyInt(6)
    /\ attributes["progress"] = PyNone
    /\ repeated = FALSE
    /\ attributes["mode"] = PyStr("Cloud Wash")

\* C8: in a freshly constructed snapshot no default is a zero-like stand-in
\* for absence: every default is an explicit bool or None, never 0 or "".
C8_NoZeroLikeDefault ==
    call.op = "__init__"
        => \A a \in DeviceAttributes : attributes[a][1] \in {"bool", "None"}

\* C9 as stated: set_attribute on a name outside {power, child_lock, storage}
\* is a silent no-op for every supplied value: nothing sent, nothing raised,
\* snapshot unchanged.
C9_IgnoredForEveryValue ==
    [][(IsSetAttribute(call')
            /\ call'.attr \notin {"power", "child_lock", "storage"})
        => /\ raised' = ""
           /\ sent' = <<>>
           /\ attributes' = attributes]_vars

\* C9 amended: set_attribute on a name outside {power, child_lock, storage}
\* sends nothing and leaves the snapshot unchanged for every supplied value;
\* it raises nothing when the value is a bool, and raises the value-type
\* error when it is not.
C9_IgnoredForBoolValue ==
    [][(IsSetAttribute(call')
            /\ call'.attr \notin {"power", "child_lock", "storage"})
        => /\ raised' = (IF call'.value[1] = "bool" THEN "" ELSE "ValueWrongType")
           /\ sent' = <<>>
           /\ attributes' = attributes]_vars

C9_Witness ==
    /\ IsSetAttribute(call)
    /\ call.attr = "mode"
    /\ call.value = PyBool(TRUE)
    /\ raised = ""
    /\ sent = <<>>
    /\ attributes["mode"] = PyStr("Auto Wash")

\* C10: every schema attribute other than status, progress and mode that a
\* frame reports (additional and wash_region included) has the frame's raw
\* value in the snapshot and in the delta after process_message; so a frame
\* reporting power=True leaves the snapshot's power True.
C10_RawPassThrough ==
    IsProcessMessage(call)
        => \A a \in (DOMAIN call.msg \cap DeviceAttributes)
                        \ {"status", "progress", "mode"} :
                /\ attributes[a] = call.msg[a]
                /\ new_status[a] = call.msg[a]

C10_Witness ==
    /\ IsProcessMessage(call)
    /\ DOMAIN call.msg = {"power", "wash_region"}
    /\ attributes["power"] = PyBool(TRUE)
    /\ new_status["power"] = PyBool(TRUE)
    /\ attributes["wash_region"] = PyInt(1)
    /\ attributes["additional"] = PyInt(1)

====
